---- MODULE Spec2Model ----
(***************************************************************************)
(* ShortsAI Producer: the workflow aggregate of App (the component whose   *)
(* text is in src/components/PromptInput.tsx, lines 88-666) together with  *)
(* the gateway functions of src/services/geminiService.ts.                 *)
(*                                                                         *)
(* React's useState is modelled as variables; setState(prev => f(prev)) is *)
(* state' = f(state).  Every asynchronous function is split at its await   *)
(* points: the part before the first await is one action (the click        *)
(* handler), each continuation after an await is one action that fires     *)
(* when the awaited gateway call resolves.  The pending continuations are  *)
(* the records of the set calls; a record carries what the closure         *)
(* captured when the handler ran.  The buttons a handler is attached to    *)
(* exist only in some renders, so a user action is guarded by the          *)
(* condition under which the render shows its button.                      *)
(***************************************************************************)
EXTENDS Integers, Sequences, FiniteSets, TLC

\* ------------------------------------------------------------------ bounds
\* Largest number of stories / ideas / segments a gateway response holds.
MaxNews == 2
MaxIdeas == 1
MaxSegs == 2
\* Ideas come back only for the first MaxFruitful stories of a list; for the
\* later ones the ideation call fails.
MaxFruitful == 1
\* How many files the user drops on the uploader, and how many times the
\* user clicks "Reset Scene", "Animate with Veo" and "Select Paid Key".
MaxUploads == 1
MaxRegen == 1
MaxAnimate == 1
MaxKeyDialogs == 1
\* How many more times the user clicks "Animate with Veo" where the clicks
\* on one card are followed closely (a double click).
MaxReclicks == 1
\* The user picks among the first MaxPick generated styles.
MaxPick == 1
\* Of the variations asked for, either none carries an image or at most
\* MaxMissing of them carry none.
MaxMissing == 1
\* How many times the user clicks "Export Assets (ZIP)", how many of the
\* artifacts cannot be fetched, and the range of the clock.
MaxExports == 2
MaxFetchFailures == 1
MaxClock == 2
\* Of the segments of a full-length script, at most this many have no image.
MaxFailed == 1
\* How many times the user clicks "Export Assets (ZIP)" while the
\* production tasks are running.
MaxLiveExports == 1
\* The longest package title, in characters.
MaxTitleLen == 4

\* generateRefImages asks for this many variations.
NumRefVariants == 4

\* generateScriptPackage asks the model for this many segments.
SegmentsAsked == 10

\* ------------------------------------------------------------------ values
\* An absent optional string (undefined or null: both falsy).
NoUrl == <<>>
\* An absent optional object (selectedNews, selectedIdea).
NoItem == [absent |-> TRUE]
\* state.scriptPackage === undefined.
NoPackage == [absent |-> TRUE]

\* Opaque values: what a gateway call returned, named after the call.
Tok(kind, a, b) == <<kind, a, b>>

Steps == <<"NEWS", "IDEATION", "SCRIPT", "REF_IMAGE", "PRODUCTION">>
StepIndex(s) == CHOOSE i \in 1..Len(Steps) : Steps[i] = s

VARIABLES
    state,        \* WorkflowState (useState)
    loading,      \* useState(false)
    news,         \* useState<NewsItem[]>([])
    manualRef,    \* useState<UploadedFile | null>(null)
    calls,        \* pending continuations: awaited calls not yet resolved
    started,      \* how many calls of each capped kind were started
    issued,       \* per production run, the segments its loop issued a call for
    committed,    \* per entity, the fields as its own tasks last wrote them
    attempt,      \* the stage handler invoked last, and how its call ended
    exporting,    \* useState(false)
    downloads     \* the archives handed to the browser, in order

vars == <<state, loading, news, manualRef, calls, started, issued, committed, attempt,
          exporting, downloads>>

\* The invocation of a handler: the state of the render it belongs to (what
\* its closure reads as state), its argument, and what the gateway answered
\* ("pending" while the call is awaited; ok: the awaited promise fulfilled).
Attempt(op, before, arg) ==
    [op |-> op, before |-> before, arg |-> arg, kind |-> "pending", ok |-> FALSE]

\* The awaited call of the handler settles.
Settled(a, kind, ok) == [a EXCEPT !.kind = kind, !.ok = ok]

\* A pending continuation.  op names the awaited call, id tells two calls
\* of one kind apart, and the other fields are what the closure captured:
\* item (the news item or idea), segs (the segments it iterates over, or
\* the one segment it was invoked on), seg (the loop index), ref (the
\* reference image) and run (the production run a scene loop belongs to).
Call(op, id, item, segs, seg, ref) ==
    [op |-> op, id |-> id, item |-> item, segs |-> segs, seg |-> seg, ref |-> ref]

\* Tells a new pending call from the pending ones of the same kind.
FreshId(op) ==
    LET ids == {c.id : c \in {d \in calls : d.op = op}}
    IN  IF ids = {} THEN 1 ELSE 1 + CHOOSE m \in ids : \A k \in ids : k <= m

HasPackage(st) == "segments" \in DOMAIN st.scriptPackage

\* The segment cards a render maps over (none without a package).
SegmentsOf(st) == IF HasPackage(st) THEN st.scriptPackage.segments ELSE <<>>

\* {...s, ...updates}
Spread(s, updates) ==
    [f \in DOMAIN s |-> IF f \in DOMAIN updates THEN updates[f] ELSE s[f]]

\* ------------------------------------------------------------------ gateway
\* What the remote model answers is an input.  kind is "reject" (the call
\* rejects), "malformed" (text that is not JSON), "empty" (no text, or an
\* object without the expected members) or "data" with n elements: a list
\* of no element or of max elements.
Throw == [ok |-> FALSE, value |-> <<>>]
Return(v) == [ok |-> TRUE, value |-> v]

ListResponses(max) ==
    {[kind |-> k, n |-> 0] : k \in {"reject", "malformed", "empty"}}
        \cup {[kind |-> "data", n |-> n] : n \in {0, max}}

NewsItem(idx) ==
    [id |-> Tok("news", idx, 0), title |-> Tok("newsTitle", idx, 0),
     snippet |-> Tok("snippet", idx, 0), url |-> Tok("url", idx, 0)]

\* The await is outside the try: a rejection propagates; a parse error
\* yields the empty list; no text is parsed as "[]".
fetchTrendingNews(resp) ==
    CASE resp.kind = "reject" -> Throw
      [] resp.kind = "malformed" -> Return(<<>>)
      [] resp.kind = "empty" -> Return(<<>>)
      [] OTHER -> Return([i \in 1..resp.n |-> NewsItem(i - 1)])

IdeationItem(idx, newsTitle) ==
    [id |-> Tok("idea", idx, 0), title |-> Tok("ideaTitle", idx, newsTitle[2]),
     description |-> Tok("ideaDescription", idx, newsTitle[2])]

\* The parse guarded the way fetchTrendingNews guards it: unparsable text
\* yields the empty list.
generateIdeationGuarded(newsTitle, newsSnippet, resp) ==
    CASE resp.kind = "reject" -> Throw
      [] resp.kind \in {"malformed", "empty"} -> Return(<<>>)
      [] OTHER -> Return([i \in 1..resp.n |-> IdeationItem(i - 1, newsTitle)])

\* No try: JSON.parse throwing rejects the promise; no text is "[]".
generateIdeation(newsTitle, newsSnippet, resp) ==
    CASE resp.kind \in {"reject", "malformed"} -> Throw
      [] resp.kind = "empty" -> Return(<<>>)
      [] OTHER -> Return([i \in 1..resp.n |-> IdeationItem(i - 1, newsTitle)])

\* A segment as the gateway returns it plus the id; the optional members
\* (imageUrl, videoUrl, isGenerating, isVideoGenerating) start undefined.
ScriptSegment(idx, ideaTitle) ==
    [id |-> Tok("seg", idx, 0), timestamp |-> Tok("timestamp", idx, 0),
     text |-> Tok("text", idx, ideaTitle[2]),
     imagePrompt |-> Tok("imagePrompt", idx, ideaTitle[2]),
     imageUrl |-> NoUrl, videoUrl |-> NoUrl,
     isGenerating |-> FALSE, isVideoGenerating |-> FALSE]

\* The decimal digit n as a character.
Char(n) == <<"0", "1", "2", "3", "4", "5", "6", "7", "8", "9">>[n + 1]

\* No text is parsed as "{}": data.segments is undefined and .map throws.
\* The title, which names the archive, is the sequence of its characters.
generateScriptPackage(ideaTitle, ideaDescription, resp) ==
    CASE resp.kind \in {"reject", "malformed", "empty"} -> Throw
      [] OTHER -> Return(
            [title |-> <<"T", Char(ideaTitle[2]), " ", Char(ideaTitle[3])>>,
             description |-> Tok("description", ideaTitle[2], ideaTitle[3]),
             tags |-> <<Tok("tag", ideaTitle[2], ideaTitle[3])>>,
             cta |-> Tok("cta", ideaTitle[2], ideaTitle[3]),
             thumbnailPrompt |-> Tok("thumbnailPrompt", ideaTitle[2], ideaTitle[3]),
             mainRefPrompt |-> Tok("mainRefPrompt", ideaTitle[2], ideaTitle[3]),
             fullScriptPara |-> Tok("fullScriptPara", ideaTitle[2], ideaTitle[3]),
             thumbnailUrl |-> NoUrl, audioUrl |-> NoUrl, isAudioGenerating |-> FALSE,
             segments |-> [i \in 1..resp.n |-> ScriptSegment(i - 1, ideaTitle)]])

\* The four calls guarded inside the function: a call that rejects ends
\* it with the images collected so far, here none.
generateRefImagesCaught(prompt, resp) ==
    CASE resp.kind = "reject" -> Return(<<>>)
      [] OTHER -> Return([i \in 1..resp.n |-> Tok("refImage", i - 1, 0)])

\* Four calls in a row; a variation that carries no image is skipped, a
\* call that rejects rejects the whole function.  resp.n of the four
\* variations carried an image.
generateRefImages(prompt, resp) ==
    CASE resp.kind = "reject" -> Throw
      [] OTHER -> Return([i \in 1..resp.n |-> Tok("refImage", i - 1, 0)])

RefResponses ==
    {[kind |-> "reject", n |-> 0], [kind |-> "data", n |-> 0]}
        \cup {[kind |-> "data", n |-> NumRefVariants - m] :
                  m \in 0..(IF MaxMissing < NumRefVariants THEN MaxMissing ELSE NumRefVariants)}

\* ------------------------------------------------------------------ render
\* Which buttons the current render offers.
\* The story buttons also offered while a call is awaited.
NewsListShownWhileLoading == state.step = "NEWS"
NewsListShown == state.step = "NEWS" /\ ~loading
IdeasShown == state.step = "IDEATION" /\ ~loading
ScriptButtonEnabled == state.step = "SCRIPT" /\ HasPackage(state) /\ ~loading
RefSectionShown == state.step = "REF_IMAGE"
ProductionShown == state.step = "PRODUCTION" /\ HasPackage(state)
SceneButtonsShown(s) ==
    /\ ~s.isVideoGenerating
    /\ s.videoUrl = NoUrl
    /\ ~s.isGenerating
    /\ s.imageUrl # NoUrl
ApiKeyModalShown == state.needsApiKey

\* ------------------------------------------------------------------ state
InitialState ==
    [step |-> "NEWS", selectedNews |-> NoItem, ideationOptions |-> <<>>,
     selectedIdea |-> NoItem, scriptPackage |-> NoPackage, refImages |-> <<>>,
     selectedRefImageUrl |-> NoUrl, needsApiKey |-> FALSE]

NoCommit == [audioUrl |-> NoUrl, thumbnailUrl |-> NoUrl, segments |-> <<>>]

\* The first render, after which the mount effect has called loadNews.
Init ==
    /\ state = InitialState
    /\ loading = TRUE
    /\ news = <<>>
    /\ manualRef = NoUrl
    /\ calls = {Call("loadNews", 1, NoItem, <<>>, 0, NoUrl)}
    /\ started = [runs |-> 0, uploads |-> 0, regens |-> 0, animates |-> 0, dialogs |-> 0,
                  exports |-> 0]
    /\ issued = <<>>
    /\ committed = NoCommit
    /\ attempt = Attempt("loadNews", InitialState, NoItem)
    /\ exporting = FALSE
    /\ downloads = <<>>

\* ------------------------------------------------------------------ stages
\* "Scan Again".
loadNews ==
    /\ NewsListShown
    /\ loading' = TRUE
    /\ calls' = calls \cup {Call("loadNews", FreshId("loadNews"), NoItem, <<>>, 0, NoUrl)}
    /\ attempt' = Attempt("loadNews", state, NoItem)
    /\ UNCHANGED <<state, news, manualRef, started, issued, committed, exporting, downloads>>

loadNewsResolved ==
    \E c \in calls, resp \in ListResponses(MaxNews) :
        /\ c.op = "loadNews"
        /\ LET trending == fetchTrendingNews(resp)
           IN  /\ news' = IF trending.ok THEN trending.value ELSE news
               /\ attempt' = Settled(attempt, resp.kind, trending.ok)
        /\ loading' = FALSE
        /\ calls' = calls \ {c}
        /\ UNCHANGED <<state, manualRef, started, issued, committed, exporting, downloads>>

selectNews ==
    \E i \in 1..Len(news) :
        /\ NewsListShown
        /\ loading' = TRUE
        /\ state' = [state EXCEPT !.selectedNews = news[i]]
        /\ calls' = calls \cup {Call("selectNews", FreshId("selectNews"), news[i], <<>>, 0, NoUrl)}
        /\ attempt' = Attempt("selectNews", state, news[i])
        /\ UNCHANGED <<news, manualRef, started, issued, committed, exporting, downloads>>

\* What the gateway may answer to the ideation call for a story.
IdeationResponses(item) ==
    IF item.id[2] < MaxFruitful THEN ListResponses(MaxIdeas)
    ELSE {r \in ListResponses(MaxIdeas) : r.kind \in {"reject", "malformed"}}

selectNewsResolved ==
    \E c \in {d \in calls : d.op = "selectNews"} : \E resp \in IdeationResponses(c.item) :
        /\ c.op = "selectNews"
        /\ LET ideas == generateIdeation(c.item.title, c.item.snippet, resp)
           IN  /\ state' = IF ideas.ok
                            THEN [state EXCEPT !.step = "IDEATION",
                                               !.ideationOptions = ideas.value]
                            ELSE state
               /\ attempt' = Settled(attempt, resp.kind, ideas.ok)
        /\ loading' = FALSE
        /\ calls' = calls \ {c}
        /\ UNCHANGED <<news, manualRef, started, issued, committed, exporting, downloads>>

selectIdea ==
    \E i \in 1..Len(state.ideationOptions) :
        /\ IdeasShown
        /\ loading' = TRUE
        /\ state' = [state EXCEPT !.selectedIdea = state.ideationOptions[i]]
        /\ calls' = calls \cup {Call("selectIdea", FreshId("selectIdea"),
                                     state.ideationOptions[i], <<>>, 0, NoUrl)}
        /\ attempt' = Attempt("selectIdea", state, state.ideationOptions[i])
        /\ UNCHANGED <<news, manualRef, started, issued, committed, exporting, downloads>>

selectIdeaResolved ==
    \E c \in calls, resp \in ListResponses(MaxSegs) :
        /\ c.op = "selectIdea"
        /\ LET pkg == generateScriptPackage(c.item.title, c.item.description, resp)
           IN  /\ state' = IF pkg.ok
                            THEN [state EXCEPT !.step = "SCRIPT", !.scriptPackage = pkg.value]
                            ELSE state
               /\ attempt' = Settled(attempt, resp.kind, pkg.ok)
        /\ committed' = [committed EXCEPT !.segments =
                [i \in 1..Len(SegmentsOf(state')) |->
                    [imageUrl |-> NoUrl, videoUrl |-> NoUrl]]]
        /\ loading' = FALSE
        /\ calls' = calls \ {c}
        /\ UNCHANGED <<news, manualRef, started, issued, exporting, downloads>>

\* "Initiate Visual Engine".
generateReferenceImages ==
    /\ ScriptButtonEnabled
    /\ HasPackage(state)
    /\ loading' = TRUE
    /\ calls' = calls \cup {Call("generateReferenceImages", FreshId("generateReferenceImages"),
                                 NoItem, <<>>, 0, state.scriptPackage.mainRefPrompt)}
    /\ attempt' = Attempt("generateReferenceImages", state, NoItem)
    /\ UNCHANGED <<state, news, manualRef, started, issued, committed, exporting, downloads>>

RefImage(urls, i) == [id |-> Tok("ref", i - 1, 0), url |-> urls[i]]

generateReferenceImagesResolved ==
    \E c \in calls, resp \in RefResponses :
        /\ c.op = "generateReferenceImages"
        /\ LET urls == generateRefImages(c.ref, resp)
           IN  /\ state' = IF urls.ok
                            THEN [state EXCEPT !.step = "REF_IMAGE",
                                     !.refImages = [i \in 1..Len(urls.value) |->
                                                       RefImage(urls.value, i)]]
                            ELSE state
               /\ attempt' = Settled(attempt, resp.kind, urls.ok)
        /\ loading' = FALSE
        /\ calls' = calls \ {c}
        /\ UNCHANGED <<news, manualRef, started, issued, committed, exporting, downloads>>

\* ------------------------------------------------------------------ production
\* The package as generateScriptPackage returned it: what a closure that
\* read state.scriptPackage before any task completed still holds.
Pristine(pkg) ==
    [pkg EXCEPT !.audioUrl = NoUrl, !.thumbnailUrl = NoUrl,
                !.segments = [j \in 1..Len(pkg.segments) |->
                    [pkg.segments[j] EXCEPT !.imageUrl = NoUrl, !.videoUrl = NoUrl]]]

\* An update merged into the package of a stale closure.
updatePackageStale(prev, updates) ==
    IF ~HasPackage(prev) THEN prev
    ELSE [prev EXCEPT !.scriptPackage = Spread(Pristine(prev.scriptPackage), updates)]

\* setState(prev => prev.scriptPackage ? {...prev, scriptPackage: {...}} : prev)
updatePackage(prev, updates) ==
    IF ~HasPackage(prev) THEN prev
    ELSE [prev EXCEPT !.scriptPackage = Spread(prev.scriptPackage, updates)]

\* The update merged into every segment, the id not compared.
updateSegmentAll(prev, id, updates) ==
    IF ~HasPackage(prev) THEN prev
    ELSE LET segs == prev.scriptPackage.segments
         IN  [prev EXCEPT !.scriptPackage.segments =
                 [j \in 1..Len(segs) |-> Spread(segs[j], updates)]]

\* The updated segment taken out of the list and appended to it
\* ([...segments.filter(s => s.id !== id), {...segment, ...updates}]).
updateSegmentMoved(prev, id, updates) ==
    IF ~HasPackage(prev) THEN prev
    ELSE LET segs == prev.scriptPackage.segments
             others == SelectSeq(segs, LAMBDA s : s.id # id)
             hit == SelectSeq(segs, LAMBDA s : s.id = id)
         IN  [prev EXCEPT !.scriptPackage.segments =
                 others \o [j \in 1..Len(hit) |-> Spread(hit[j], updates)]]

updateSegment(prev, id, updates) ==
    IF ~HasPackage(prev) THEN prev
    ELSE LET segs == prev.scriptPackage.segments
         IN  [prev EXCEPT !.scriptPackage.segments =
                 [j \in 1..Len(segs) |->
                     IF segs[j].id = id THEN Spread(segs[j], updates) ELSE segs[j]]]

\* Marks segment i and calls generateSceneImage for it.
MarkGenerating(prev, segments, i) ==
    updateSegment(prev, segments[i].id, [isGenerating |-> TRUE])

RECURSIVE MarkAllFrom(_, _, _)
MarkAllFrom(prev, segments, i) ==
    IF i > Len(segments) THEN prev
    ELSE MarkAllFrom(MarkGenerating(prev, segments, i), segments, i + 1)

\* The loop body not awaited (segments.forEach(async ...)): every
\* remaining call is issued at once.
sceneLoopAllAtOnce(prev, run, segments, i, refUrl) ==
    [state |-> MarkAllFrom(prev, segments, i),
     calls |-> {Call("generateSceneImage", run, NoItem, segments, j, refUrl) :
                   j \in i..Len(segments)},
     issued |-> [k \in 1..(Len(segments) - i + 1) |-> i + k - 1]]

\* The try around the whole loop: the first failure leaves the loop.
sceneLoopHaltOnFailure(prev, run, segments, i, refUrl) ==
    IF i <= Len(segments)
          /\ (i = 1 \/ SegmentsOf(prev)[i - 1].imageUrl # NoUrl)
    THEN [state |-> MarkGenerating(prev, segments, i),
          calls |-> {Call("generateSceneImage", run, NoItem, segments, i, refUrl)},
          issued |-> <<i>>]
    ELSE [state |-> prev, calls |-> {}, issued |-> <<>>]

\* One turn of the for loop up to its await: mark segment i and call
\* generateSceneImage for it, or leave the loop.
sceneLoop(prev, run, segments, i, refUrl) ==
    IF i <= Len(segments)
    THEN [state |-> MarkGenerating(prev, segments, i),
          calls |-> {Call("generateSceneImage", run, NoItem, segments, i, refUrl)},
          issued |-> <<i>>]
    ELSE [state |-> prev, calls |-> {}, issued |-> <<>>]

\* selectRefImage(url) without its call of generateProductionAssets: the
\* stage and the reference are set and no task is started.
startProductionWithoutAssets(url, pkg, resolved) ==
    /\ state' = [state EXCEPT !.step = "PRODUCTION", !.selectedRefImageUrl = url]
    /\ calls' = calls \ resolved
    /\ started' = [started EXCEPT !.runs = @ + 1]
    /\ issued' = Append(issued, <<>>)

\* selectRefImage(url) and generateProductionAssets(url) up to its first
\* await; pkg is state.scriptPackage of the render the handler belongs to.
startProduction(url, pkg, resolved) ==
    LET run == started.runs + 1
        chosen == [state EXCEPT !.step = "PRODUCTION", !.selectedRefImageUrl = url]
        hasPkg == "segments" \in DOMAIN pkg
    IN  /\ state' = IF hasPkg THEN updatePackage(chosen, [isAudioGenerating |-> TRUE])
                     ELSE chosen
        /\ calls' = (calls \ resolved)
                \cup (IF hasPkg
                      THEN {Call("generateSpeech", run, NoItem, <<>>, 0, url),
                            Call("generateThumbnail", run, NoItem, pkg.segments, 0, url)}
                      ELSE {})
        /\ started' = [started EXCEPT !.runs = run]
        /\ issued' = Append(issued, <<>>)

\* A click on one of the generated styles.
selectRefImage ==
    \E i \in 1..Len(state.refImages) :
        /\ i <= MaxPick
        /\ RefSectionShown
        /\ startProduction(state.refImages[i].url, state.scriptPackage, {})
        /\ UNCHANGED <<attempt, loading, news, manualRef, committed, exporting, downloads>>

\* A file dropped on ImageUploader: processFile starts the FileReader.
processFile ==
    /\ RefSectionShown
    /\ started.uploads < MaxUploads
    /\ started' = [started EXCEPT !.uploads = @ + 1]
    /\ calls' = calls \cup {Call("upload", started.uploads + 1, state.scriptPackage, <<>>, 0,
                                 Tok("upload", started.uploads + 1, 0))}
    /\ UNCHANGED <<attempt, state, loading, news, manualRef, issued, committed, exporting, downloads>>

\* reader.onload: onImageSelected is handleManualRefSelect of the render
\* in which the file was dropped.
handleManualRefSelect ==
    \E c \in calls :
        /\ c.op = "upload"
        /\ manualRef' = c.ref
        /\ startProduction(c.ref, c.item, {c})
        /\ UNCHANGED <<attempt, loading, news, committed, exporting, downloads>>

\* The reader fails or yields nothing: onImageSelected is never called.
readerFailed ==
    \E c \in calls :
        /\ c.op = "upload"
        /\ calls' = calls \ {c}
        /\ UNCHANGED <<attempt, state, loading, news, manualRef, started, issued, committed, exporting, downloads>>

generateSpeechResolved ==
    \E c \in calls, ok \in BOOLEAN :
        /\ c.op = "generateSpeech"
        /\ LET audioUrl == Tok("audio", c.id, 0)
           IN  /\ state' = IF ok
                            THEN updatePackage(state, [audioUrl |-> audioUrl,
                                                       isAudioGenerating |-> FALSE])
                            ELSE updatePackage(state, [isAudioGenerating |-> FALSE])
               /\ committed' = IF ok THEN [committed EXCEPT !.audioUrl = audioUrl]
                                ELSE committed
        /\ calls' = calls \ {c}
        /\ UNCHANGED <<attempt, loading, news, manualRef, started, issued, exporting, downloads>>

generateThumbnailResolved ==
    \E c \in calls, ok \in BOOLEAN :
        /\ c.op = "generateThumbnail"
        /\ LET thumbUrl == Tok("thumbnail", c.id, 0)
               after == IF ok THEN updatePackage(state, [thumbnailUrl |-> thumbUrl])
                        ELSE state
               loop == sceneLoop(after, c.id, c.segs, 1, c.ref)
           IN  /\ state' = loop.state
               /\ calls' = (calls \ {c}) \cup loop.calls
               /\ issued' = [issued EXCEPT ![c.id] = @ \o loop.issued]
               /\ committed' = IF ok THEN [committed EXCEPT !.thumbnailUrl = thumbUrl]
                                ELSE committed
        /\ UNCHANGED <<attempt, loading, news, manualRef, started, exporting, downloads>>

\* The scene loop's await returns or throws, and the loop goes on.
generateSceneImageResolved ==
    \E c \in calls, ok \in BOOLEAN :
        /\ c.op = "generateSceneImage"
        /\ LET imageUrl == Tok("scene", c.id, c.seg)
               after == IF ok
                        THEN updateSegment(state, c.segs[c.seg].id,
                                           [imageUrl |-> imageUrl, isGenerating |-> FALSE])
                        ELSE updateSegment(state, c.segs[c.seg].id, [isGenerating |-> FALSE])
               loop == sceneLoop(after, c.id, c.segs, c.seg + 1, c.ref)
           IN  /\ state' = loop.state
               /\ calls' = (calls \ {c}) \cup loop.calls
               /\ issued' = [issued EXCEPT ![c.id] = @ \o loop.issued]
               /\ committed' = IF ok
                                THEN [committed EXCEPT !.segments[c.seg].imageUrl = imageUrl]
                                ELSE committed
        /\ UNCHANGED <<attempt, loading, news, manualRef, started, exporting, downloads>>

\* The regenerated image merged without touching the motion clip.
regeneratedKeepingVideo(imageUrl) ==
    [imageUrl |-> imageUrl, isGenerating |-> FALSE]

\* What regenerateScene merges into the segment when its call succeeds.
regenerated(imageUrl) ==
    [imageUrl |-> imageUrl, isGenerating |-> FALSE, videoUrl |-> NoUrl]

\* regenerateScene without its first line: the segment is marked and the
\* call issued whether or not a reference is selected.
regenerateSceneUnchecked(prev, segment, id, i) ==
    [state |-> updateSegment(prev, segment.id, [isGenerating |-> TRUE]),
     calls |-> {Call("regenerateScene", id, NoItem, <<segment>>, i,
                     prev.selectedRefImageUrl)}]

\* regenerateScene with the old image dropped when the new one is asked
\* for ({ imageUrl: undefined, isGenerating: true }).
regenerateSceneClearingFirst(prev, segment, id, i) ==
    IF prev.selectedRefImageUrl = NoUrl
    THEN [state |-> prev, calls |-> {}]
    ELSE [state |-> updateSegment(prev, segment.id,
                                  [isGenerating |-> TRUE, imageUrl |-> NoUrl]),
          calls |-> {Call("regenerateScene", id, NoItem, <<segment>>, i,
                          prev.selectedRefImageUrl)}]

\* regenerateScene(segment) up to its await: it returns at once when no
\* reference is selected, else marks the segment and calls
\* generateSceneImage with the selected reference.
regenerateSceneStart(prev, segment, id, i) ==
    IF prev.selectedRefImageUrl = NoUrl
    THEN [state |-> prev, calls |-> {}]
    ELSE [state |-> updateSegment(prev, segment.id, [isGenerating |-> TRUE]),
          calls |-> {Call("regenerateScene", id, NoItem, <<segment>>, i,
                          prev.selectedRefImageUrl)}]

\* "Reset Scene" on the card of segment i.
regenerateScene ==
    \E i \in 1..Len(SegmentsOf(state)) :
        /\ ProductionShown
        /\ SceneButtonsShown(state.scriptPackage.segments[i])
        /\ started.regens < MaxRegen
        /\ LET start == regenerateSceneStart(state, state.scriptPackage.segments[i],
                                              started.regens + 1, i)
           IN  /\ state' = start.state
               /\ calls' = calls \cup start.calls
        /\ started' = [started EXCEPT !.regens = @ + 1]
        /\ UNCHANGED <<attempt, loading, news, manualRef, issued, committed, exporting, downloads>>

regenerateSceneResolved ==
    \E c \in calls, ok \in BOOLEAN :
        /\ c.op = "regenerateScene"
        /\ LET imageUrl == Tok("regenerated", c.id, c.seg)
           IN  /\ state' = IF ok
                            THEN updateSegment(state, c.segs[1].id, regenerated(imageUrl))
                            ELSE updateSegment(state, c.segs[1].id, [isGenerating |-> FALSE])
               /\ committed' = IF ok
                                THEN [committed EXCEPT !.segments[c.seg] =
                                         [imageUrl |-> imageUrl, videoUrl |-> NoUrl]]
                                ELSE committed
        /\ calls' = calls \ {c}
        /\ UNCHANGED <<attempt, loading, news, manualRef, started, issued, exporting, downloads>>

\* animateScene without its first line: the key check (and after it the
\* motion call) is issued whether or not the segment holds an image.
animateSceneUnchecked(prev, segment, id, i) ==
    [state |-> prev,
     calls |-> {Call("hasSelectedApiKey", id, NoItem, <<segment>>, i, NoUrl)}]

\* animateScene(segment) up to its first await: it returns at once when
\* the segment holds no image, else asks whether a key is selected.
animateSceneStart(prev, segment, id, i) ==
    IF segment.imageUrl = NoUrl
    THEN [state |-> prev, calls |-> {}]
    ELSE [state |-> prev,
          calls |-> {Call("hasSelectedApiKey", id, NoItem, <<segment>>, i, NoUrl)}]

\* "Animate with Veo" on the card of segment i, up to the key check, by a
\* user who clicks it at most max times.
animateSceneWithin(max) ==
    \E i \in 1..Len(SegmentsOf(state)) :
        /\ ProductionShown
        /\ SceneButtonsShown(state.scriptPackage.segments[i])
        /\ started.animates < max
        /\ LET start == animateSceneStart(state, state.scriptPackage.segments[i],
                                           started.animates + 1, i)
           IN  /\ state' = start.state
               /\ calls' = calls \cup start.calls
        /\ started' = [started EXCEPT !.animates = @ + 1]
        /\ UNCHANGED <<attempt, loading, news, manualRef, issued, committed, exporting, downloads>>

animateScene == animateSceneWithin(MaxAnimate)

\* The same button under a user who also double-clicks.
animateSceneRepeated == animateSceneWithin(MaxAnimate + MaxReclicks)

\* animateScene with the segment marked before the key is checked.
hasSelectedApiKeyMarkedFirst(c, hasKey) ==
    /\ c.op = "hasSelectedApiKey"
    /\ state' = CASE hasKey = "yes" ->
                        updateSegment(state, c.segs[1].id, [isVideoGenerating |-> TRUE])
                   [] hasKey = "no" ->
                        updateSegment([state EXCEPT !.needsApiKey = TRUE],
                                      c.segs[1].id, [isVideoGenerating |-> TRUE])
                   [] OTHER -> state
    /\ calls' = (calls \ {c}) \cup
            (IF hasKey = "yes"
             THEN {Call("generateSceneVideo", c.id, NoItem, c.segs, c.seg, NoUrl)}
             ELSE {})
    /\ UNCHANGED <<attempt, loading, news, manualRef, started, issued, committed, exporting, downloads>>

\* animateScene after the key check of call c has answered hasKey, up to
\* its next await.
hasSelectedApiKeyAnswered(c, hasKey) ==
    /\ c.op = "hasSelectedApiKey"
    /\ state' = CASE hasKey = "yes" ->
                        updateSegment(state, c.segs[1].id, [isVideoGenerating |-> TRUE])
                   [] hasKey = "no" -> [state EXCEPT !.needsApiKey = TRUE]
                   [] OTHER -> state
    /\ calls' = (calls \ {c}) \cup
            (IF hasKey = "yes"
             THEN {Call("generateSceneVideo", c.id, NoItem, c.segs, c.seg, NoUrl)}
             ELSE {})
    /\ UNCHANGED <<attempt, loading, news, manualRef, started, issued, committed, exporting, downloads>>

\* The key check answers yes or no (no also when window.aistudio is
\* missing), or rejects, which ends animateScene with nothing caught.
hasSelectedApiKeyResolved ==
    \E c \in calls, hasKey \in {"yes", "no", "reject"} :
        hasSelectedApiKeyAnswered(c, hasKey)

\* The motion clip made from the image the closure holds.
VideoOf(imageUrl) == <<"video">> \o imageUrl

\* The catch of animateScene without its last line: the flag is cleared
\* only where the clip is stored.
generateSceneVideoFlagKept(c, outcome) ==
    /\ c.op = "generateSceneVideo"
    /\ LET videoUrl == VideoOf(c.segs[1].imageUrl)
       IN  /\ state' =
                CASE outcome = "video" ->
                        updateSegment(state, c.segs[1].id,
                            [videoUrl |-> videoUrl, isVideoGenerating |-> FALSE])
                  [] outcome = "not found" -> [state EXCEPT !.needsApiKey = TRUE]
                  [] OTHER -> state
           /\ committed' = IF outcome = "video"
                            THEN [committed EXCEPT !.segments[c.seg].videoUrl = videoUrl]
                            ELSE committed
    /\ calls' = calls \ {c}
    /\ UNCHANGED <<attempt, loading, news, manualRef, started, issued, exporting, downloads>>

\* animateScene after generateSceneVideo of call c has ended: it returned
\* the clip ("video"), it threw an error whose message says "Requested
\* entity was not found" ("not found"), or it threw another error, among
\* them "Video URI not found" when the finished job holds no clip.  The
\* call stands for the first request and the whole poll loop.
generateSceneVideoEnded(c, outcome) ==
    /\ c.op = "generateSceneVideo"
    /\ LET videoUrl == VideoOf(c.segs[1].imageUrl)
       IN  /\ state' =
                CASE outcome = "video" ->
                        updateSegment(state, c.segs[1].id,
                            [videoUrl |-> videoUrl, isVideoGenerating |-> FALSE])
                  [] outcome = "not found" ->
                        updateSegment([state EXCEPT !.needsApiKey = TRUE],
                            c.segs[1].id, [isVideoGenerating |-> FALSE])
                  [] OTHER ->
                        updateSegment(state, c.segs[1].id, [isVideoGenerating |-> FALSE])
           /\ committed' = IF outcome = "video"
                            THEN [committed EXCEPT !.segments[c.seg].videoUrl = videoUrl]
                            ELSE committed
    /\ calls' = calls \ {c}
    /\ UNCHANGED <<attempt, loading, news, manualRef, started, issued, exporting, downloads>>

generateSceneVideoResolved ==
    \E c \in calls, outcome \in {"video", "not found", "error"} :
        generateSceneVideoEnded(c, outcome)

\* "Select Paid Key" in the modal.
openApiKeyDialog ==
    /\ ApiKeyModalShown
    /\ started.dialogs < MaxKeyDialogs
    /\ calls' = calls \cup {Call("openSelectKey", started.dialogs + 1, NoItem, <<>>, 0, NoUrl)}
    /\ started' = [started EXCEPT !.dialogs = @ + 1]
    /\ UNCHANGED <<attempt, state, loading, news, manualRef, issued, committed, exporting, downloads>>

\* openApiKeyDialog after openSelectKey of call c has ended: it returned
\* (ok, also when window.aistudio is missing) or it rejected.
openSelectKeyEnded(c, ok) ==
    /\ c.op = "openSelectKey"
    /\ state' = IF ok THEN [state EXCEPT !.needsApiKey = FALSE] ELSE state
    /\ calls' = calls \ {c}
    /\ UNCHANGED <<attempt, loading, news, manualRef, started, issued, committed, exporting, downloads>>

openSelectKeyResolved ==
    \E c \in calls, ok \in BOOLEAN : openSelectKeyEnded(c, ok)

ProductionNext ==
    \/ selectRefImage
    \/ processFile
    \/ handleManualRefSelect
    \/ readerFailed
    \/ generateSpeechResolved
    \/ generateThumbnailResolved
    \/ generateSceneImageResolved
    \/ regenerateScene
    \/ regenerateSceneResolved
    \/ animateScene
    \/ hasSelectedApiKeyResolved
    \/ generateSceneVideoResolved
    \/ openApiKeyDialog
    \/ openSelectKeyResolved

StageNext ==
    \/ loadNews
    \/ loadNewsResolved
    \/ selectNews
    \/ selectNewsResolved
    \/ selectIdea
    \/ selectIdeaResolved
    \/ generateReferenceImages
    \/ generateReferenceImagesResolved

Next == StageNext \/ ProductionNext

Spec == Init /\ [][Next]_vars

\* ------------------------------------------------------------------ handlers
\* The render calls animateScene and regenerateScene only from the card of
\* a segment that holds an image, in PRODUCTION.  To see what the handlers
\* themselves do with any argument, they are invoked here directly, on
\* any segment of the package in any state the program has reached.
invokeAnimateScene ==
    \E i \in 1..Len(SegmentsOf(state)) :
        /\ started.animates < MaxAnimate
        /\ LET segment == state.scriptPackage.segments[i]
               start == animateSceneStart(state, segment, started.animates + 1, i)
           IN  /\ state' = start.state
               /\ calls' = calls \cup start.calls
               /\ attempt' = Attempt("animateScene", state, segment)
        /\ started' = [started EXCEPT !.animates = @ + 1]
        /\ UNCHANGED <<loading, news, manualRef, issued, committed, exporting, downloads>>

invokeRegenerateScene ==
    \E i \in 1..Len(SegmentsOf(state)) :
        /\ started.regens < MaxRegen
        /\ LET segment == state.scriptPackage.segments[i]
               start == regenerateSceneStart(state, segment, started.regens + 1, i)
           IN  /\ state' = start.state
               /\ calls' = calls \cup start.calls
               /\ attempt' = Attempt("regenerateScene", state, segment)
        /\ started' = [started EXCEPT !.regens = @ + 1]
        /\ UNCHANGED <<loading, news, manualRef, issued, committed, exporting, downloads>>

\* The program driven through its stages by one click on a generated
\* style, with the two handlers invoked directly.
HandlerNext ==
    \/ StageNext
    \/ selectRefImage
    \/ generateSpeechResolved
    \/ generateThumbnailResolved
    \/ generateSceneImageResolved
    \/ invokeRegenerateScene
    \/ regenerateSceneResolved
    \/ invokeAnimateScene
    \/ hasSelectedApiKeyResolved
    \/ generateSceneVideoResolved

HandlerSpec == Init /\ [][HandlerNext]_vars

\* ------------------------------------------------------------------ motion
\* The program entered through a generated style (no upload), under a user
\* who may click "Animate with Veo" again before the first click's key
\* check has answered.
MotionNext ==
    \/ StageNext
    \/ selectRefImage
    \/ generateSpeechResolved
    \/ generateThumbnailResolved
    \/ generateSceneImageResolved
    \/ regenerateScene
    \/ regenerateSceneResolved
    \/ animateSceneRepeated
    \/ hasSelectedApiKeyResolved
    \/ generateSceneVideoResolved
    \/ openApiKeyDialog
    \/ openSelectKeyResolved

MotionSpec == Init /\ [][MotionNext]_vars

\* ------------------------------------------------------------------ export
\* n.toString(): the decimal digits of n.
RECURSIVE toString(_)
toString(n) == IF n < 10 THEN <<n>> ELSE toString(n \div 10) \o <<n % 10>>

\* str.padStart(targetLength, padString) for a one-character padString.
padStart(str, targetLength, padString) ==
    IF Len(str) >= targetLength THEN str
    ELSE [k \in 1..(targetLength - Len(str)) |-> padString] \o str

\* An entry name: what precedes the index, the index, what follows it
\* (no index: <<>>).
Name(prefix, index, suffix) == <<prefix, index, suffix>>

\* zip.file(name, blob) of a fetched url.
Entry(name, url) == [name |-> name, url |-> url]

\* Two ifs instead of if / else if: the frame is added beside the clip.
sceneEntriesBoth(seg, position) ==
    LET index == padStart(toString(position), 2, 0)
    IN  (IF seg.videoUrl # NoUrl
         THEN {Entry(Name("scenes/segment_", index, "_motion.mp4"), seg.videoUrl)}
         ELSE {})
        \cup (IF seg.imageUrl # NoUrl
              THEN {Entry(Name("scenes/segment_", index, "_frame.png"), seg.imageUrl)}
              ELSE {})

\* The callback of segments.map: the entry of the segment at position
\* (the code's i + 1), the clip if it holds one, else the image if it
\* holds one.
sceneEntries(seg, position) ==
    LET index == padStart(toString(position), 2, 0)
    IN  IF seg.videoUrl # NoUrl
        THEN {Entry(Name("scenes/segment_", index, "_motion.mp4"), seg.videoUrl)}
        ELSE IF seg.imageUrl # NoUrl
        THEN {Entry(Name("scenes/segment_", index, "_frame.png"), seg.imageUrl)}
        ELSE {}

\* How many segments up to position hold a clip or an image.
Rank(segments, position) ==
    Cardinality({j \in 1..position :
                    segments[j].videoUrl # NoUrl \/ segments[j].imageUrl # NoUrl})

\* The scene entries numbered by a counter of the entries added so far
\* instead of the segment's position.
binaryEntriesRanked(pkg) ==
    (IF pkg.audioUrl # NoUrl
     THEN {Entry(Name("narration.wav", <<>>, ""), pkg.audioUrl)} ELSE {})
    \cup (IF pkg.thumbnailUrl # NoUrl
          THEN {Entry(Name("thumbnail.png", <<>>, ""), pkg.thumbnailUrl)} ELSE {})
    \cup UNION {sceneEntries(pkg.segments[i], Rank(pkg.segments, i)) :
                   i \in 1..Len(pkg.segments)}

\* Every zip.file of a fetched blob, for the package the handler's closure
\* holds.
binaryEntries(pkg) ==
    (IF pkg.audioUrl # NoUrl
     THEN {Entry(Name("narration.wav", <<>>, ""), pkg.audioUrl)} ELSE {})
    \cup (IF pkg.thumbnailUrl # NoUrl
          THEN {Entry(Name("thumbnail.png", <<>>, ""), pkg.thumbnailUrl)} ELSE {})
    \cup UNION {sceneEntries(pkg.segments[i], i) : i \in 1..Len(pkg.segments)}

\* The archive with the clock in the names of its entries.
buildArchiveStamped(pkg, now) ==
    [entries |-> {Entry(Name(e.name[1], e.name[2] \o <<now>>, e.name[3]), e.url) :
                     e \in binaryEntries(pkg)},
     metadata |-> [title |-> pkg.title, description |-> pkg.description,
                   tags |-> pkg.tags, script |-> pkg.fullScriptPara, cta |-> pkg.cta,
                   productionDate |-> now],
     fullScript |-> pkg.fullScriptPara]

\* The zip: the fetched blobs under their names, production_metadata.json
\* and full_script.txt.
buildArchive(pkg, now) ==
    [entries |-> binaryEntries(pkg),
     metadata |-> [title |-> pkg.title, description |-> pkg.description,
                   tags |-> pkg.tags, script |-> pkg.fullScriptPara, cta |-> pkg.cta,
                   productionDate |-> now],
     fullScript |-> pkg.fullScriptPara]

\* Every url the package holds.
UrlsOf(pkg) ==
    ({pkg.audioUrl, pkg.thumbnailUrl}
        \cup {pkg.segments[i].imageUrl : i \in 1..Len(pkg.segments)}
        \cup {pkg.segments[i].videoUrl : i \in 1..Len(pkg.segments)}) \ {NoUrl}

\* The sets of at most k elements of S.
RECURSIVE UpTo(_, _)
UpTo(S, k) ==
    IF k = 0 THEN {{}}
    ELSE LET fewer == UpTo(S, k - 1)
         IN  fewer \cup {F \cup {u} : F \in fewer, u \in S}

\* Which urls of the package cannot be fetched (the fetch rejects or the
\* response is not ok).
FetchFailures(pkg) == UpTo(UrlsOf(pkg), MaxFetchFailures)

\* A scene whose fetch fails is left out and the zip is made of the rest
\* (the fetch caught inside the callback of segments.map).
fetchedSkippingScenes(pkg, unfetchable) ==
    \A e \in binaryEntries(pkg) : e.name[2] = <<>> => e.url \notin unfetchable

\* fetchAsBlob returned for every url the handler fetched: none of them
\* rejected or answered with a status that is not ok.
fetched(pkg, unfetchable) ==
    \A e \in binaryEntries(pkg) : e.url \notin unfetchable

\* "Export Assets (ZIP)", disabled while exporting.
downloadProduction ==
    /\ ProductionShown
    /\ ~exporting
    /\ started.exports < MaxExports
    /\ exporting' = TRUE
    /\ calls' = calls \cup {Call("downloadProduction", started.exports + 1,
                                 state.scriptPackage, <<>>, 0, NoUrl)}
    /\ started' = [started EXCEPT !.exports = @ + 1]
    /\ UNCHANGED <<state, loading, news, manualRef, issued, committed, attempt, downloads>>

\* The characters the pattern \s matches, as far as titles hold them here:
\* the space and the tab.
Whitespace == {" ", "\t"}

\* What is left of str after the whitespace it starts with (the greedy +).
RECURSIVE afterRun(_)
afterRun(str) ==
    IF str # <<>> /\ Head(str) \in Whitespace THEN afterRun(Tail(str)) ELSE str

\* str.replace(/\s+/g, replacement): scanning from the left, each match of
\* \s+ (a whitespace character and all that follow it) becomes replacement.
RECURSIVE replace(_, _)
replace(str, replacement) ==
    IF str = <<>> THEN <<>>
    ELSE IF Head(str) \in Whitespace
    THEN <<replacement>> \o replace(afterRun(str), replacement)
    ELSE <<Head(str)>> \o replace(Tail(str), replacement)

\* The name made with /\s/g: every whitespace character replaced by an
\* underscore of its own.
downloadNameEach(title) ==
    <<"ShortsAI_Production_">>
        \o [i \in 1..Len(title) |-> IF title[i] \in Whitespace THEN "_" ELSE title[i]]
        \o <<".zip">>

\* downloadLink.download: the template literal around the title.
downloadName(title) == <<"ShortsAI_Production_">> \o replace(title, "_") \o <<".zip">>

\* downloadProduction ending with a write of the package its closure
\* holds (setState with state.scriptPackage of the render it was clicked in).
downloadProductionEndedStale(c, unfetchable, now) ==
    /\ c.op = "downloadProduction"
    /\ downloads' = IF fetched(c.item, unfetchable)
                    THEN Append(downloads, [from |-> c.item,
                                            archive |-> buildArchive(c.item, now),
                                            download |-> downloadName(c.item.title)])
                    ELSE downloads
    /\ state' = [state EXCEPT !.scriptPackage = c.item]
    /\ exporting' = FALSE
    /\ calls' = calls \ {c}
    /\ UNCHANGED <<loading, news, manualRef, started, issued, committed, attempt>>

\* downloadProduction from its try to its finally: the urls in unfetchable
\* cannot be fetched, and the clock shows now.  The browser is handed the
\* zip unless a fetch threw; from is the package the closure held and
\* download the name the link gives the file.
downloadProductionEnded(c, unfetchable, now) ==
    /\ c.op = "downloadProduction"
    /\ downloads' = IF fetched(c.item, unfetchable)
                    THEN Append(downloads, [from |-> c.item,
                                            archive |-> buildArchive(c.item, now),
                                            download |-> downloadName(c.item.title)])
                    ELSE downloads
    /\ exporting' = FALSE
    /\ calls' = calls \ {c}
    /\ UNCHANGED <<state, loading, news, manualRef, started, issued, committed, attempt>>

downloadProductionResolved ==
    \E c \in {d \in calls : d.op = "downloadProduction"} :
        \E unfetchable \in FetchFailures(c.item), now \in 1..MaxClock :
            downloadProductionEnded(c, unfetchable, now)

\* downloadProduction reads state.scriptPackage and exporting and nothing
\* else, so it is run on the packages a PRODUCTION state can hold.  A
\* segment holds no image (never made, or being made by the scene loop),
\* an image (possibly while it is regenerated) or an image and a clip
\* (possibly while it is animated again); the narration is held, being
\* made or failed; the thumbnail is held or not.
SegmentShapes(seg, position) ==
    {[seg EXCEPT !.imageUrl = shape.imageUrl, !.videoUrl = shape.videoUrl,
                 !.isGenerating = shape.isGenerating,
                 !.isVideoGenerating = shape.isVideoGenerating] :
        shape \in {sh \in [imageUrl : {NoUrl, Tok("scene", 1, position)},
                           videoUrl : {NoUrl, VideoOf(Tok("scene", 1, position))},
                           isGenerating : BOOLEAN, isVideoGenerating : BOOLEAN] :
                      sh.imageUrl = NoUrl => sh.videoUrl = NoUrl /\ ~sh.isVideoGenerating}}

PackageShapes(pkg, segmentLists) ==
    {[pkg EXCEPT !.audioUrl = a.audioUrl, !.isAudioGenerating = a.isAudioGenerating,
                 !.thumbnailUrl = t, !.segments = segments] :
        a \in {[audioUrl |-> NoUrl, isAudioGenerating |-> FALSE],
               [audioUrl |-> NoUrl, isAudioGenerating |-> TRUE],
               [audioUrl |-> Tok("audio", 1, 0), isAudioGenerating |-> FALSE]},
        t \in {NoUrl, Tok("thumbnail", 1, 0)},
        segments \in segmentLists}

\* The package generateScriptPackage returns for the first idea of the
\* first story, with n segments.
PublishedPackage(n) ==
    LET idea == IdeationItem(0, NewsItem(0).title)
    IN  generateScriptPackage(idea.title, idea.description, [kind |-> "data", n |-> n]).value

\* Up to MaxSegs segments of any shape.
ShortPackages ==
    UNION {LET pkg == PublishedPackage(n)
               shapes == UNION {SegmentShapes(pkg.segments[i], i) : i \in 1..n}
           IN  PackageShapes(pkg, {segments \in [1..n -> shapes] :
                                      \A i \in 1..n :
                                          segments[i] \in SegmentShapes(pkg.segments[i], i)})
           : n \in {0, MaxSegs}}

\* The segments asked for, each holding its image except those in failed.
FullPackages ==
    LET pkg == PublishedPackage(SegmentsAsked)
    IN  UNION {PackageShapes(pkg,
                  {[i \in 1..SegmentsAsked |->
                       IF i \in failed THEN pkg.segments[i]
                       ELSE [pkg.segments[i] EXCEPT !.imageUrl = Tok("scene", 1, i)]]})
               : failed \in {F \in SUBSET (1..SegmentsAsked) : Cardinality(F) <= MaxFailed}}

\* PRODUCTION holding package pkg, no call awaited, nothing exported.
BundleStart(pkg) ==
    /\ LET idea == IdeationItem(0, NewsItem(0).title)
           urls == generateRefImages(pkg.mainRefPrompt,
                                     [kind |-> "data", n |-> NumRefVariants]).value
       IN  /\ state = [step |-> "PRODUCTION", selectedNews |-> NewsItem(0),
                       ideationOptions |-> <<idea>>, selectedIdea |-> idea,
                       scriptPackage |-> pkg,
                       refImages |-> [i \in 1..Len(urls) |-> RefImage(urls, i)],
                       selectedRefImageUrl |-> urls[1], needsApiKey |-> FALSE]
           /\ committed = [audioUrl |-> pkg.audioUrl, thumbnailUrl |-> pkg.thumbnailUrl,
                           segments |-> [i \in 1..Len(pkg.segments) |->
                               [imageUrl |-> pkg.segments[i].imageUrl,
                                videoUrl |-> pkg.segments[i].videoUrl]]]
    /\ loading = FALSE
    /\ news = <<NewsItem(0)>>
    /\ manualRef = NoUrl
    /\ calls = {}
    /\ started = [runs |-> 1, uploads |-> 0, regens |-> 0, animates |-> 0, dialogs |-> 0,
                  exports |-> 0]
    /\ issued = <<<<>>>>
    /\ attempt = Settled(Attempt("generateReferenceImages", InitialState, NoItem),
                         "data", TRUE)
    /\ exporting = FALSE
    /\ downloads = <<>>

BundleInit == \E pkg \in ShortPackages \cup FullPackages : BundleStart(pkg)

BundleNext ==
    \/ downloadProduction
    \/ downloadProductionResolved

BundleSpec == BundleInit /\ [][BundleNext]_vars

\* ------------------------------------------------------------------ titles
\* The title is text of the model's answer: any characters.  The export
\* is run on a package whose narration and first scene are held, under
\* every title of up to MaxTitleLen characters over letters, the
\* underscore and the whitespace characters.
Alphabet == {"a", "b", "_"} \cup Whitespace

Titles == UNION {[1..n -> Alphabet] : n \in 0..MaxTitleLen}

TitledPackages ==
    LET pkg == PublishedPackage(MaxSegs)
    IN  {[pkg EXCEPT !.title = title, !.audioUrl = Tok("audio", 1, 0),
                     !.segments[1].imageUrl = Tok("scene", 1, 1)] : title \in Titles}

TitleInit == \E pkg \in TitledPackages : BundleStart(pkg)

TitleSpec == TitleInit /\ [][BundleNext]_vars

\* ------------------------------------------------------------------ live export
\* "Export Assets (ZIP)" clicked while the production tasks are running:
\* the button is rendered for the whole of PRODUCTION.
downloadProductionLive == started.exports < MaxLiveExports /\ downloadProduction

\* The program entered through a generated style (no upload), every button
\* clicked once, with the export beside the production tasks.
ExportNext ==
    \/ StageNext
    \/ selectRefImage
    \/ generateSpeechResolved
    \/ generateThumbnailResolved
    \/ generateSceneImageResolved
    \/ regenerateScene
    \/ regenerateSceneResolved
    \/ animateScene
    \/ hasSelectedApiKeyResolved
    \/ generateSceneVideoResolved
    \/ openApiKeyDialog
    \/ openSelectKeyResolved
    \/ downloadProductionLive
    \/ downloadProductionResolved

ExportSpec == Init /\ [][ExportNext]_vars

\* ------------------------------------------------------------------ properties
Segs == SegmentsOf(state)
Pending(op) == {c \in calls : c.op = op}
Kind(url) == IF url = NoUrl THEN "none" ELSE url[1]

\* C1: in every step the stage stays where it is or moves forward along
\* NEWS, IDEATION, SCRIPT, REF_IMAGE, PRODUCTION; no handler and no late
\* completion of an awaited call moves it back (the program has no restart).
StageNeverRegresses ==
    [][StepIndex(state'.step) >= StepIndex(state.step)]_vars

\* A call begun in REF_IMAGE (the file reader) completed in PRODUCTION.
LateCompletionInProduction ==
    /\ state.step = "PRODUCTION"
    /\ started.runs = 2

\* C2: every stage holds the data it needs: IDEATION a selected story and
\* at least one idea, SCRIPT a package, REF_IMAGE at least one style,
\* PRODUCTION a package and a selected reference.
StageDataPresent ==
    /\ state.step = "IDEATION" =>
            state.selectedNews # NoItem /\ Len(state.ideationOptions) > 0
    /\ state.step = "SCRIPT" => HasPackage(state)
    /\ state.step = "REF_IMAGE" => Len(state.refImages) > 0
    /\ state.step = "PRODUCTION" =>
            HasPackage(state) /\ state.selectedRefImageUrl # NoUrl

\* The step starts or completes regenerateScene on segment i.
RegenerateStepOn(i) ==
    \/ \E c \in calls' \ calls : c.op = "regenerateScene" /\ c.seg = i
    \/ \E c \in calls \ calls' : c.op = "regenerateScene" /\ c.seg = i

\* C3: a step of regenerateScene on segment i (its start, its success,
\* its failure) leaves every other segment, the narration and the
\* thumbnail as they were.
RegenerateLeavesSiblings ==
    [][\A i \in 1..Len(Segs) :
          RegenerateStepOn(i) =>
              /\ Len(SegmentsOf(state')) = Len(Segs)
              /\ \A j \in 1..Len(Segs) : j # i => SegmentsOf(state')[j] = Segs[j]
              /\ state'.scriptPackage.audioUrl = state.scriptPackage.audioUrl
              /\ state'.scriptPackage.isAudioGenerating = state.scriptPackage.isAudioGenerating
              /\ state'.scriptPackage.thumbnailUrl = state.scriptPackage.thumbnailUrl]_vars

\* A segment was regenerated while its sibling, the narration and the
\* thumbnail hold results.
RegeneratedBesideSibling ==
    \E i, j \in 1..Len(Segs) :
        /\ i # j
        /\ Kind(Segs[i].imageUrl) = "regenerated"
        /\ Segs[j].imageUrl # NoUrl
        /\ state.scriptPackage.audioUrl # NoUrl
        /\ state.scriptPackage.thumbnailUrl # NoUrl

CompletionsSurvive ==
    HasPackage(state) =>
        /\ state.scriptPackage.audioUrl = committed.audioUrl
        /\ state.scriptPackage.thumbnailUrl = committed.thumbnailUrl
        /\ Len(committed.segments) = Len(Segs)
        /\ \A i \in 1..Len(Segs) :
              /\ Segs[i].imageUrl = committed.segments[i].imageUrl
              /\ Segs[i].videoUrl = committed.segments[i].videoUrl

\* Every stream has completed and each left its result.
AllStreamsCompleted ==
    /\ calls = {}
    /\ started.regens = 1
    /\ Len(Segs) = 2
    /\ state.scriptPackage.audioUrl # NoUrl
    /\ state.scriptPackage.thumbnailUrl # NoUrl
    /\ \A i \in 1..Len(Segs) : Segs[i].imageUrl # NoUrl
    /\ \E i \in 1..Len(Segs) : Kind(Segs[i].imageUrl) = "regenerated"
    /\ \E i \in 1..Len(Segs) : Kind(Segs[i].videoUrl) = "video"

\* The scene-loop calls of production run r that are awaited.
LoopCalls(r) == {c \in Pending("generateSceneImage") : c.id = r}
LoopOver(r) == LoopCalls(r) = {} /\ {c \in Pending("generateThumbnail") : c.id = r} = {}

\* C6: the scene loop of a production run issues its calls in segment
\* order, one call per segment, and never has two calls awaited: the
\* call for a segment is issued only when every earlier one has resolved.
SceneLoopSequential ==
    \A r \in 1..Len(issued) :
        /\ issued[r] = [k \in 1..Len(issued[r]) |-> k]
        /\ Len(issued[r]) <= Len(Segs)
        /\ Cardinality(LoopCalls(r)) <= 1
        /\ \A c \in LoopCalls(r) : c.seg = Len(issued[r])
        /\ LoopOver(r) => Len(issued[r]) = Len(Segs)

\* A loop has gone through two segments.
SceneLoopFinished ==
    /\ Len(issued) >= 1
    /\ LoopOver(1)
    /\ issued[1] = <<1, 2>>

\* C7: when a scene-loop call resolves, by returning or by throwing, the
\* loop issues the call for the next segment if there is one; and a call
\* that returned leaves its image in its segment.
SceneLoopContinues ==
    [][\A c \in calls \ calls' :
          c.op = "generateSceneImage" =>
              /\ c.seg < Len(c.segs) =>
                    \E d \in calls' \ calls :
                        d.op = "generateSceneImage" /\ d.id = c.id /\ d.seg = c.seg + 1
              /\ committed'.segments[c.seg].imageUrl = Tok("scene", c.id, c.seg)
                    /\ committed' # committed =>
                    SegmentsOf(state')[c.seg].imageUrl = Tok("scene", c.id, c.seg)]_vars

\* The only loop failed on the first segment and then made the second.
LaterSceneAfterFailure ==
    /\ started.runs = 1
    /\ started.regens = 0
    /\ Len(Segs) = 2
    /\ Segs[1].imageUrl = NoUrl
    /\ ~Segs[1].isGenerating
    /\ Segs[2].imageUrl = Tok("scene", 1, 2)

\* C8 as stated: the scene loop does not wait for the thumbnail: while a
\* run's thumbnail call is awaited its first scene call has been issued.
ScenesStartWithoutThumbnail ==
    \A c \in Pending("generateThumbnail") :
        Len(c.segs) > 0 => issued[c.id] # <<>>

\* An awaited gateway call of the production tasks resolves.
GatewayResolves ==
    \/ generateSpeechResolved
    \/ generateThumbnailResolved
    \/ generateSceneImageResolved
    \/ regenerateSceneResolved

\* The gateway does not leave the production tasks waiting forever: while
\* one of their calls is awaited, one of them resolves.
FairSpec == Spec /\ WF_vars(GatewayResolves)

\* No narration, thumbnail or scene-image call is awaited, every loop has
\* gone through every segment, and no busy flag of these tasks is set.
AllTasksTerminal ==
    /\ started.runs >= 1
    /\ Pending("generateSpeech") = {}
    /\ Pending("generateThumbnail") = {}
    /\ Pending("generateSceneImage") = {}
    /\ Pending("regenerateScene") = {}
    /\ \A r \in 1..Len(issued) : Len(issued[r]) = Len(Segs)
    /\ ~state.scriptPackage.isAudioGenerating
    /\ \A i \in 1..Len(Segs) : ~Segs[i].isGenerating

\* C9: once PRODUCTION is entered, if every gateway call resolves, the
\* narration, the thumbnail and every segment's image task end, each by
\* success or by failure, and none is left pending.
ProductionTerminates ==
    (state.step = "PRODUCTION") ~> AllTasksTerminal

\* All tasks ended, some by success and some by failure.
TerminalWithFailures ==
    /\ AllTasksTerminal
    /\ Len(Segs) = 2
    /\ state.scriptPackage.audioUrl = NoUrl
    /\ state.scriptPackage.thumbnailUrl # NoUrl
    /\ Segs[1].imageUrl # NoUrl
    /\ Segs[2].imageUrl = NoUrl

\* The package without its segments, and a segment without its busy flag.
Siblings(st) == [st.scriptPackage EXCEPT !.segments = <<>>]
Artifacts(seg) == [seg EXCEPT !.isGenerating = FALSE]

\* The segment a step's scene loop marks for its next call (0: none).
NextMarked ==
    IF \E d \in calls' \ calls : d.op = "generateSceneImage"
    THEN (CHOOSE d \in calls' \ calls : d.op = "generateSceneImage").seg
    ELSE 0

\* Everything but segment i (0: no segment) is as before, except that the
\* loop may have marked the next segment for its call.
OthersUntouched(i) ==
    /\ state'.step = state.step
    /\ Len(SegmentsOf(state')) = Len(Segs)
    /\ \A j \in 1..Len(Segs) :
          j # i => IF j = NextMarked
                   THEN Artifacts(SegmentsOf(state')[j]) = Artifacts(Segs[j])
                   ELSE SegmentsOf(state')[j] = Segs[j]

\* C10: the step that records the failure of a scene image, of the
\* narration or of the thumbnail leaves the stage, every other segment
\* and the other task kinds as they were, and in the failed entity
\* changes nothing but its busy flag.  (The same step of a scene loop
\* marks the next segment as generating: the start of the next task.)
FailureIsContained ==
    [][\A c \in calls \ calls' :
          /\ c.op = "generateSceneImage"
                /\ SegmentsOf(state')[c.seg].imageUrl # Tok("scene", c.id, c.seg) =>
                /\ OthersUntouched(c.seg)
                /\ Siblings(state') = Siblings(state)
                /\ Artifacts(SegmentsOf(state')[c.seg]) = Artifacts(Segs[c.seg])
          /\ c.op = "regenerateScene"
                /\ SegmentsOf(state')[c.seg].imageUrl # Tok("regenerated", c.id, c.seg) =>
                /\ OthersUntouched(c.seg)
                /\ Siblings(state') = Siblings(state)
                /\ Artifacts(SegmentsOf(state')[c.seg]) = Artifacts(Segs[c.seg])
          /\ c.op = "generateSpeech"
                /\ state'.scriptPackage.audioUrl # Tok("audio", c.id, 0) =>
                /\ OthersUntouched(0)
                /\ [Siblings(state') EXCEPT !.isAudioGenerating = FALSE]
                      = [Siblings(state) EXCEPT !.isAudioGenerating = FALSE]
          /\ c.op = "generateThumbnail"
                /\ state'.scriptPackage.thumbnailUrl # Tok("thumbnail", c.id, 0) =>
                /\ OthersUntouched(0)
                /\ Siblings(state') = Siblings(state)]_vars

\* The narration failed while the thumbnail and a scene image are held.
FailureBesideResults ==
    /\ started.runs = 1
    /\ Pending("generateSpeech") = {}
    /\ HasPackage(state)
    /\ state.scriptPackage.audioUrl = NoUrl
    /\ state.scriptPackage.thumbnailUrl # NoUrl
    /\ \E i \in 1..Len(Segs) : Segs[i].imageUrl # NoUrl

\* The step settles the awaited call of stage handler op.
Settles(op) == attempt.op = op /\ attempt.kind = "pending" /\ attempt'.kind # "pending"

\* The gateway call rejected, or answered with text that does not parse.
CallFailed(a) == a.kind \in {"reject", "malformed"}

\* C11: when the ideation call of selectNews(item) fails, the stage is
\* NEWS, selectedNews is item, ideationOptions is empty, and the stories
\* (item among them) are offered again; and whenever the call of
\* selectNews succeeds, on a first or on a later invocation, the stage is
\* IDEATION.
IdeationFailureAllowsRetry ==
    [][Settles("selectNews") =>
          IF CallFailed(attempt')
          THEN /\ state'.step = "NEWS"
               /\ state'.selectedNews = attempt.arg
               /\ state'.ideationOptions = <<>>
               /\ ~loading'
               /\ \E i \in 1..Len(news') : news'[i] = attempt.arg
               /\ Len(news') = MaxNews => \E i \in 1..Len(news') : news'[i] # attempt.arg
          ELSE state'.step = "IDEATION"]_vars

\* selectNews failed on one story and then advanced on another.
RetriedAfterIdeationFailure ==
    /\ state.step = "IDEATION"
    /\ attempt.op = "selectNews"
    /\ attempt.ok
    /\ attempt.before.selectedNews # NoItem
    /\ attempt.before.selectedNews # attempt.arg

\* The handlers that move the stage.
StageOps == {"selectNews", "selectIdea", "generateReferenceImages"}

\* C12 as stated: when the call of a stage handler fails, the stage is the
\* one before the invocation and every field that held a value before the
\* invocation holds the same value.
StageFailureKeepsFields ==
    [][\A op \in StageOps :
          Settles(op) /\ (CallFailed(attempt') \/ ~attempt'.ok) =>
              LET before == attempt.before
              IN  /\ state'.step = before.step
                  /\ before.selectedNews # NoItem =>
                        state'.selectedNews = before.selectedNews
                  /\ before.ideationOptions # <<>> =>
                        state'.ideationOptions = before.ideationOptions
                  /\ before.selectedIdea # NoItem =>
                        state'.selectedIdea = before.selectedIdea
                  /\ before.scriptPackage # NoPackage =>
                        state'.scriptPackage = before.scriptPackage
                  /\ before.refImages # <<>> => state'.refImages = before.refImages
                  /\ before.selectedRefImageUrl # NoUrl =>
                        state'.selectedRefImageUrl = before.selectedRefImageUrl]_vars

\* What a stage handler writes before its await: the selection.
Selection(before, op, arg) ==
    CASE op = "selectNews" -> [before EXCEPT !.selectedNews = arg]
      [] op = "selectIdea" -> [before EXCEPT !.selectedIdea = arg]
      [] OTHER -> before

\* C12 as amended: when the call of a stage handler fails, the state is
\* the one before the invocation except for the selection the handler
\* recorded when it was invoked (selectedNews, selectedIdea), which is the
\* handler's argument, whatever was selected before.
StageFailureKeepsAllButSelection ==
    [][\A op \in StageOps :
          Settles(op) /\ (CallFailed(attempt') \/ ~attempt'.ok) =>
              state' = Selection(attempt.before, op, attempt.arg)]_vars

\* A story was selected while another was, and the call failed.
FailedReselection ==
    /\ attempt.op = "selectNews"
    /\ CallFailed(attempt)
    /\ attempt.before.selectedNews # NoItem
    /\ attempt.before.selectedNews # attempt.arg
    /\ state.selectedNews = attempt.arg

\* C13 as stated: when the news fetch fails (the call rejects, or its
\* response does not parse), the story list is left as it was and the
\* stage stays NEWS.
FailedFetchKeepsNews ==
    [][Settles("loadNews") /\ CallFailed(attempt') =>
          news' = news /\ state'.step = "NEWS"]_vars

\* C14 as stated: a published package has exactly the number of segments
\* asked for; a response with another number is rejected, never published.
PublishedPackageHasAllSegments ==
    HasPackage(state) => Len(state.scriptPackage.segments) = SegmentsAsked

\* C15 as stated: once generateReferenceImages has succeeded, refImages
\* holds exactly the four candidates asked for, with distinct ids,
\* whatever the four calls returned.
FourReferenceCandidates ==
    state.step \in {"REF_IMAGE", "PRODUCTION"} =>
        /\ Len(state.refImages) = NumRefVariants
        /\ \A i, j \in 1..Len(state.refImages) :
              i # j => state.refImages[i].id # state.refImages[j].id

\* C16: once a package is published, every step keeps it published with
\* the same number of segments, the same id, narration text and image
\* prompt at every position, and the ids of a package are pairwise distinct.
SegmentsFixed ==
    [][/\ HasPackage(state) =>
            /\ HasPackage(state')
            /\ Len(SegmentsOf(state')) = Len(Segs)
            /\ \A i \in 1..Len(Segs) :
                  /\ SegmentsOf(state')[i].id = Segs[i].id
                  /\ SegmentsOf(state')[i].text = Segs[i].text
                  /\ SegmentsOf(state')[i].imagePrompt = Segs[i].imagePrompt
       /\ \A i, j \in 1..Len(SegmentsOf(state')) :
              i # j => SegmentsOf(state')[i].id # SegmentsOf(state')[j].id]_vars

\* Two production runs, a regeneration and an animation have written
\* into the segments.
SegmentsWrittenByEveryTask ==
    /\ started.runs = 2
    /\ calls = {}
    /\ Len(Segs) = 2
    /\ \E i \in 1..Len(Segs) : Kind(Segs[i].imageUrl) = "regenerated"
    /\ \E i \in 1..Len(Segs) : Kind(Segs[i].videoUrl) = "video"
    /\ \E i \in 1..Len(Segs) : Kind(Segs[i].imageUrl) = "scene"

\* C17 as stated, in the fields the code has: a task that is pending
\* (its busy flag set) carries no result value; a result is held only by
\* a task that is not pending.
PendingCarriesNoResult ==
    HasPackage(state) =>
        /\ state.scriptPackage.isAudioGenerating => state.scriptPackage.audioUrl = NoUrl
        /\ \A i \in 1..Len(Segs) :
              /\ Segs[i].isGenerating => Segs[i].imageUrl = NoUrl
              /\ Segs[i].isVideoGenerating => Segs[i].videoUrl = NoUrl

\* A segment as published: no task of it was ever attempted.
NeverAttempted(seg) ==
    [seg EXCEPT !.imageUrl = NoUrl, !.videoUrl = NoUrl,
                !.isGenerating = FALSE, !.isVideoGenerating = FALSE]

\* The token a scene-image call returns when it succeeds.
SceneToken(c) ==
    IF c.op = "regenerateScene" THEN Tok("regenerated", c.id, c.seg)
    ELSE Tok("scene", c.id, c.seg)

\* C18 as stated: when a scene-image call fails, in the scene loop or in
\* regenerateScene, its segment is left in a state of its own: it differs
\* from a segment never attempted and it does not hold an image the way a
\* segment whose call succeeded does.
FailedSceneIsMarked ==
    [][\A c \in calls \ calls' :
          c.op \in {"generateSceneImage", "regenerateScene"}
                /\ SegmentsOf(state')[c.seg].imageUrl # SceneToken(c) =>
              LET after == SegmentsOf(state')[c.seg]
              IN  /\ after # NeverAttempted(after)
                  /\ after.imageUrl = NoUrl]_vars

\* The step invokes handler op (counted by started[counter]).
Invoked(op, counter) ==
    attempt'.op = op /\ started'[counter] = started[counter] + 1

RegenerateNeedsReference ==
    [][Invoked("regenerateScene", "regens")
            /\ attempt'.before.selectedRefImageUrl = NoUrl =>
          calls' = calls /\ state' = state]_vars

\* regenerateScene was invoked on a segment of a package while no
\* reference was selected.
RegenerateInvokedWithoutReference ==
    /\ attempt.op = "regenerateScene"
    /\ attempt.before.selectedRefImageUrl = NoUrl
    /\ HasPackage(attempt.before)
    /\ started.regens = 1

\* C21 as stated: while the motion job of a segment is awaited the segment
\* is marked as animating; when the job ends with a clip the segment holds
\* that clip and is no longer marked, and when it ends otherwise the
\* segment is no longer marked and holds what it held.
MotionPendingUntilJobEnds ==
    [][/\ \A c \in calls' :
              c.op = "generateSceneVideo" =>
                  SegmentsOf(state')[c.seg].isVideoGenerating
       /\ \A c \in calls \ calls' : \A outcome \in {"video", "not found", "error"} :
              generateSceneVideoEnded(c, outcome) =>
                  LET after == SegmentsOf(state')[c.seg]
                  IN  /\ ~after.isVideoGenerating
                      /\ after.videoUrl = IF outcome = "video"
                                          THEN VideoOf(c.segs[1].imageUrl)
                                          ELSE Segs[c.seg].videoUrl]_vars

\* C23: when the key check of animateScene answers no, the only change is
\* needsApiKey set (no call is issued, the segment is not marked as
\* animating); when the motion call ends with "Requested entity was not
\* found", needsApiKey is set, the segment is no longer marked as animating
\* and everything else is as before; an ordinary failure of the motion
\* call leaves needsApiKey as it was; and when openSelectKey returns,
\* openApiKeyDialog clears needsApiKey and changes nothing else.
CredentialRequiredIsDistinct ==
    [][\A c \in calls \ calls' :
          /\ hasSelectedApiKeyAnswered(c, "no") =>
                /\ state' = [state EXCEPT !.needsApiKey = TRUE]
                /\ calls' = calls \ {c}
          /\ generateSceneVideoEnded(c, "not found") =>
                /\ state'.needsApiKey
                /\ ~SegmentsOf(state')[c.seg].isVideoGenerating
                /\ [state' EXCEPT !.needsApiKey = FALSE] =
                      updateSegment([state EXCEPT !.needsApiKey = FALSE],
                                    Segs[c.seg].id, [isVideoGenerating |-> FALSE])
          /\ generateSceneVideoEnded(c, "error") =>
                state'.needsApiKey = state.needsApiKey
          /\ openSelectKeyEnded(c, TRUE) =>
                /\ ~state'.needsApiKey
                /\ state' = [state EXCEPT !.needsApiKey = FALSE]]_vars

\* The key modal was shown after an animation was asked for, and "Select
\* Paid Key" has closed it; no segment is left marked as animating.
CredentialRequiredCleared ==
    /\ started.dialogs = 1
    /\ Pending("openSelectKey") = {}
    /\ ~state.needsApiKey
    /\ started.animates >= 1
    /\ Pending("hasSelectedApiKey") = {}
    /\ Pending("generateSceneVideo") = {}
    /\ \A i \in 1..Len(Segs) : ~Segs[i].isVideoGenerating /\ Segs[i].videoUrl = NoUrl

\* The names of the entries of an archive that hold fetched blobs.
Names(archive) == {e.name : e \in archive.entries}
TwoDigits(position) == <<position \div 10, position % 10>>
MotionName(position) == Name("scenes/segment_", TwoDigits(position), "_motion.mp4")
FrameName(position) == Name("scenes/segment_", TwoDigits(position), "_frame.png")

\* A task has succeeded: its result is held and it is not being run.
MotionDone(seg) == seg.videoUrl # NoUrl /\ ~seg.isVideoGenerating
ImageDone(seg) == seg.imageUrl # NoUrl /\ ~seg.isGenerating

\* C24 as stated: an archive holds the narration exactly if the narration
\* has succeeded, the thumbnail exactly if the thumbnail has, and for
\* every segment the clip exactly if its motion has succeeded and the
\* frame exactly if its motion has not and its image has; nothing is
\* held for a task that is being run or has failed.
BundleHoldsExactlySuccesses ==
    \A k \in 1..Len(downloads) :
        LET pkg == downloads[k].from
            names == Names(downloads[k].archive)
        IN  /\ Name("narration.wav", <<>>, "") \in names <=>
                    pkg.audioUrl # NoUrl /\ ~pkg.isAudioGenerating
            /\ Name("thumbnail.png", <<>>, "") \in names <=> pkg.thumbnailUrl # NoUrl
            /\ \A i \in 1..Len(pkg.segments) :
                  /\ MotionName(i) \in names <=> MotionDone(pkg.segments[i])
                  /\ FrameName(i) \in names <=>
                        ~MotionDone(pkg.segments[i]) /\ ImageDone(pkg.segments[i])

\* The entries of an archive numbered position.
SceneEntriesAt(archive, position) ==
    {e \in archive.entries : e.name[1] = "scenes/segment_" /\ e.name[2] = TwoDigits(position)}

\* C25: for every segment an archive holds at most one scene entry: the
\* clip if the segment holds a clip, else the frame if it holds an image,
\* else none; never a clip and a frame of one segment.
OneSceneEntryMotionPreferred ==
    \A k \in 1..Len(downloads) :
        LET pkg == downloads[k].from
            archive == downloads[k].archive
        IN  \A i \in 1..Len(pkg.segments) :
                LET seg == pkg.segments[i]
                IN  /\ Cardinality(SceneEntriesAt(archive, i)) <= 1
                    /\ ~(MotionName(i) \in Names(archive) /\ FrameName(i) \in Names(archive))
                    /\ MotionName(i) \in Names(archive) <=> seg.videoUrl # NoUrl
                    /\ FrameName(i) \in Names(archive) <=>
                            seg.videoUrl = NoUrl /\ seg.imageUrl # NoUrl
                    /\ \A e \in SceneEntriesAt(archive, i) :
                            e.url = IF seg.videoUrl # NoUrl THEN seg.videoUrl ELSE seg.imageUrl

\* An archive was made of a segment that holds a clip and its image, one
\* that holds an image only and a narration.
ClipAndFrameBundled ==
    \E k \in 1..Len(downloads) :
        LET pkg == downloads[k].from
        IN  /\ Len(pkg.segments) = 2
            /\ pkg.segments[1].videoUrl # NoUrl /\ pkg.segments[1].imageUrl # NoUrl
            /\ pkg.segments[2].videoUrl = NoUrl /\ pkg.segments[2].imageUrl # NoUrl
            /\ pkg.audioUrl # NoUrl

\* The positions of a package whose segment holds a clip or an image.
Held(pkg) ==
    {i \in 1..Len(pkg.segments) :
        pkg.segments[i].videoUrl # NoUrl \/ pkg.segments[i].imageUrl # NoUrl}

\* C26: the scene entries of an archive carry the positions of their
\* segments in the script, in two digits: the numbers in the archive are
\* exactly the positions of the segments that hold an artifact, the number
\* of a segment without one is missing and the later ones are not moved
\* up; production_metadata.json carries the package's title, description,
\* tags, script and call to action, and full_script.txt the script.
SceneNamesArePositions ==
    \A k \in 1..Len(downloads) :
        LET pkg == downloads[k].from
            archive == downloads[k].archive
        IN  /\ {e.name[2] : e \in {f \in archive.entries : f.name[1] = "scenes/segment_"}}
                    = {TwoDigits(i) : i \in Held(pkg)}
            /\ \A i \in 1..Len(pkg.segments) :
                    \A e \in SceneEntriesAt(archive, i) :
                        e.url \in {pkg.segments[i].videoUrl, pkg.segments[i].imageUrl}
            /\ archive.metadata.title = pkg.title
            /\ archive.metadata.description = pkg.description
            /\ archive.metadata.tags = pkg.tags
            /\ archive.metadata.script = pkg.fullScriptPara
            /\ archive.metadata.cta = pkg.cta
            /\ archive.fullScript = pkg.fullScriptPara

\* An archive was made of a full-length script whose seventh scene failed.
SeventhOfTenMissing ==
    \E k \in 1..Len(downloads) :
        LET pkg == downloads[k].from
            archive == downloads[k].archive
        IN  /\ Len(pkg.segments) = SegmentsAsked
            /\ Held(pkg) = (1..SegmentsAsked) \ {7}
            /\ FrameName(7) \notin Names(archive)
            /\ Name("scenes/segment_", <<0, 8>>, "_frame.png") \in Names(archive)
            /\ Name("scenes/segment_", <<1, 0>>, "_frame.png") \in Names(archive)

\* The urls downloadProduction fetches: the narration, the thumbnail and
\* of every segment the clip or else the image.
Fetches(pkg) ==
    ({pkg.audioUrl, pkg.thumbnailUrl}
        \cup {IF pkg.segments[i].videoUrl # NoUrl THEN pkg.segments[i].videoUrl
              ELSE pkg.segments[i].imageUrl : i \in 1..Len(pkg.segments)}) \ {NoUrl}

\* C27: downloadProduction hands over an archive exactly if none of its
\* fetches failed, however many artifacts the package lacks; when a fetch
\* failed nothing is handed over.
ArchiveIffEveryFetchSucceeds ==
    [][\A c \in {d \in calls \ calls' : d.op = "downloadProduction"} :
          \A unfetchable \in FetchFailures(c.item), now \in 1..MaxClock :
              downloadProductionEnded(c, unfetchable, now) =>
                  IF unfetchable \cap Fetches(c.item) = {}
                  THEN /\ Len(downloads') = Len(downloads) + 1
                       /\ downloads'[Len(downloads')].from = c.item
                  ELSE downloads' = downloads]_vars

\* Of a package that lacks a scene image, one export handed over a
\* partial archive and another was given up.
PartialArchiveAndAbortedBuild ==
    /\ started.exports = 2
    /\ calls = {}
    /\ ~exporting
    /\ Len(downloads) = 1
    /\ Len(downloads[1].from.segments) = 2
    /\ Cardinality(Held(downloads[1].from)) = 1
    /\ downloads[1].from.audioUrl = NoUrl

\* C28: two archives made of the same package have the same entry names
\* and the same fetched blobs, the same full_script.txt and the same
\* production_metadata.json but for productionDate.
ExportIsIdempotent ==
    \A j, k \in 1..Len(downloads) :
        downloads[j].from = downloads[k].from =>
            /\ Names(downloads[j].archive) = Names(downloads[k].archive)
            /\ downloads[j].archive.entries = downloads[k].archive.entries
            /\ downloads[j].archive.fullScript = downloads[k].archive.fullScript
            /\ [downloads[j].archive.metadata EXCEPT !.productionDate = 0]
                   = [downloads[k].archive.metadata EXCEPT !.productionDate = 0]

\* Two archives were made of one package at different times.
ExportedTwice ==
    /\ Len(downloads) = 2
    /\ downloads[1].from = downloads[2].from
    /\ downloads[1].from = state.scriptPackage
    /\ downloads[1].archive.metadata.productionDate
            # downloads[2].archive.metadata.productionDate
    /\ downloads[1].archive.entries # {}

\* C29 as stated: every scene-image call, of a scene loop or of
\* regenerateScene, carries as its reference the selectedRefImageUrl the
\* state holds when the call is issued.
SceneCallsUseSelectedReference ==
    [][\A c \in calls' \ calls :
          c.op \in {"generateSceneImage", "regenerateScene"} =>
              c.ref = state'.selectedRefImageUrl]_vars

\* The calls a step issues, of the kinds in ops.
Issued(ops) == {c \in calls' \ calls : c.op \in ops}

\* C30: a step moves the stage to PRODUCTION only if it is selectRefImage
\* (a production run is started), and selectRefImage in one step sets the
\* stage, sets selectedRefImageUrl to the style clicked or the file
\* uploaded, marks the narration and issues the narration and thumbnail
\* calls of the new run; no other step issues a narration or thumbnail
\* call, and a scene loop issues calls only as the continuation of a run
\* so started.
ProductionOnlyBySelectRefImage ==
    [][/\ state'.step = "PRODUCTION" /\ state.step # "PRODUCTION" =>
              started'.runs = started.runs + 1
       /\ started'.runs # started.runs =>
              /\ started'.runs = started.runs + 1
              /\ state'.step = "PRODUCTION"
              /\ state'.selectedRefImageUrl # NoUrl
              /\ \/ \E i \in 1..Len(state.refImages) :
                        state'.selectedRefImageUrl = state.refImages[i].url
                 \/ manualRef' # manualRef /\ state'.selectedRefImageUrl = manualRef'
              /\ state'.scriptPackage.isAudioGenerating
              /\ \E c \in Issued({"generateSpeech"}) : c.id = started'.runs
              /\ \E c \in Issued({"generateThumbnail"}) :
                        c.id = started'.runs /\ c.ref = state'.selectedRefImageUrl
       /\ Issued({"generateSpeech", "generateThumbnail"}) # {} =>
              started'.runs = started.runs + 1
       /\ \A c \in Issued({"generateSceneImage"}) :
              /\ c.id <= started.runs
              /\ started'.runs = started.runs
              /\ \E d \in calls \ calls' :
                    d.op \in {"generateThumbnail", "generateSceneImage"} /\ d.id = c.id]_vars

\* PRODUCTION was entered by a click on a generated style: the reference
\* is that style and the narration and thumbnail calls are awaited.
ProductionEnteredByStyle ==
    /\ state.step = "PRODUCTION"
    /\ started.runs = 1
    /\ manualRef = NoUrl
    /\ state.selectedRefImageUrl = state.refImages[1].url
    /\ Pending("generateSpeech") # {}
    /\ Pending("generateThumbnail") # {}

\* The scene-image call c returned in this step: its image was recorded.
SceneCallSucceeded(c) ==
    /\ committed' # committed
    /\ committed'.segments[c.seg].imageUrl = SceneToken(c)

\* C31 as stated: after a scene-image call of a segment has failed, in the
\* scene loop or in regenerateScene, the segment's card offers "Reset
\* Scene" as soon as the segment is not busy; and regenerateScene, when its
\* call succeeds, sets the segment's image.
FailedSceneIsRetryable ==
    [][\A c \in calls \ calls' :
          c.op \in {"generateSceneImage", "regenerateScene"} =>
              LET after == SegmentsOf(state')[c.seg]
              IN  /\ ~SceneCallSucceeded(c)
                        /\ ~after.isGenerating /\ ~after.isVideoGenerating =>
                        /\ state'.step = "PRODUCTION"
                        /\ SceneButtonsShown(after)
                  /\ c.op = "regenerateScene" /\ SceneCallSucceeded(c) =>
                        after.imageUrl = SceneToken(c)]_vars

\* C32 as stated: once the stage is PRODUCTION no step changes the
\* selected reference or starts another production run: the narration,
\* the thumbnail and the scene loop are started once.
ProductionStartedOnce ==
    [][state.step = "PRODUCTION" =>
          /\ state'.selectedRefImageUrl = state.selectedRefImageUrl
          /\ started'.runs = started.runs
          /\ Issued({"generateSpeech", "generateThumbnail"}) = {}]_vars

\* C33 as stated: a segment that holds a clip holds the clip made from the
\* image it holds.
MotionMatchesImage ==
    \A i \in 1..Len(Segs) :
        Segs[i].videoUrl # NoUrl => Segs[i].videoUrl = VideoOf(Segs[i].imageUrl)

\* The awaited scene-image calls (of a scene loop or of regenerateScene)
\* and the awaited motion calls of segment i.
SceneCallsOf(i) ==
    {c \in calls : c.op \in {"generateSceneImage", "regenerateScene"} /\ c.seg = i}
MotionCallsOf(i) == {c \in Pending("generateSceneVideo") : c.seg = i}

\* C34 as stated: for every segment at most one scene-image call is
\* awaited, isGenerating is set exactly while one is, and
\* isVideoGenerating is set exactly while a motion call is awaited.
BusyFlagsMatchCalls ==
    \A i \in 1..Len(Segs) :
        /\ Cardinality(SceneCallsOf(i)) <= 1
        /\ Segs[i].isGenerating <=> SceneCallsOf(i) # {}
        /\ Segs[i].isVideoGenerating <=> MotionCallsOf(i) # {}

\* What generateScriptPackage returns for idea when the model answers
\* with n segments.
GeneratedFrom(idea, n) ==
    generateScriptPackage(idea.title, idea.description, [kind |-> "data", n |-> n]).value

BusyFlagsCleared ==
    [][/\ \A c \in calls \ calls' :
              /\ c.op \in {"loadNews", "selectNews", "selectIdea",
                           "generateReferenceImages"} => ~loading'
              /\ c.op = "downloadProduction" => ~exporting'
              /\ c.op = "generateSpeech" => ~state'.scriptPackage.isAudioGenerating
              /\ c.op \in {"generateSceneImage", "regenerateScene"} =>
                    ~SegmentsOf(state')[c.seg].isGenerating
              /\ c.op = "generateSceneVideo" =>
                    ~SegmentsOf(state')[c.seg].isVideoGenerating
       /\ {c \in calls' : c.op \in {"loadNews", "selectNews", "selectIdea",
                                    "generateReferenceImages"}} = {} => ~loading'
       /\ {c \in calls' : c.op = "downloadProduction"} = {} => ~exporting'
       /\ HasPackage(state') =>
              /\ {c \in calls' : c.op = "generateSpeech"} = {} =>
                    ~state'.scriptPackage.isAudioGenerating
              /\ \A i \in 1..Len(SegmentsOf(state')) :
                    /\ {c \in calls' : c.op \in {"generateSceneImage", "regenerateScene"}
                                       /\ c.seg = i} = {} =>
                          ~SegmentsOf(state')[i].isGenerating
                    /\ {c \in calls' : c.op = "generateSceneVideo" /\ c.seg = i} = {} =>
                          ~SegmentsOf(state')[i].isVideoGenerating]_vars

\* Every kind of call has resolved, the narration, a scene image, the
\* motion call and the export by failure, and no flag is left set.
AllFlagsClearedAfterFailures ==
    /\ calls = {}
    /\ state.step = "PRODUCTION"
    /\ ~loading
    /\ ~exporting
    /\ started.exports = 1
    /\ downloads = <<>>
    /\ started.animates = 1
    /\ started.regens = 1
    /\ state.scriptPackage.audioUrl = NoUrl
    /\ ~state.scriptPackage.isAudioGenerating
    /\ Len(Segs) = 2
    /\ Segs[2].imageUrl = NoUrl
    /\ \A i \in 1..Len(Segs) :
          ~Segs[i].isGenerating /\ ~Segs[i].isVideoGenerating /\ Segs[i].videoUrl = NoUrl

\* C37: regenerateScene whose call fails changes nothing of its segment
\* but isGenerating, which it sets when it is invoked and clears when the
\* call fails: neither step touches the image or the clip, so the failure
\* leaves the segment with the image and the clip it held (what another
\* task stored while the call was awaited included).
RegenerateFailureKeepsArtifacts ==
    [][/\ \A c \in calls' \ calls :
              c.op = "regenerateScene" =>
                  SegmentsOf(state')[c.seg] = [Segs[c.seg] EXCEPT !.isGenerating = TRUE]
       /\ \A c \in calls \ calls' :
              c.op = "regenerateScene" /\ ~SceneCallSucceeded(c) =>
                  SegmentsOf(state')[c.seg] = [Segs[c.seg] EXCEPT !.isGenerating = FALSE]]_vars

\* The call of regenerateScene has failed on a segment whose clip arrived
\* while the call was awaited: the segment holds its first image and the
\* clip.
RegenerationFailedBesideClip ==
    /\ started.regens = 1
    /\ Pending("regenerateScene") = {}
    /\ \E i \in 1..Len(Segs) :
          /\ Kind(Segs[i].imageUrl) = "scene"
          /\ Segs[i].videoUrl = VideoOf(Segs[i].imageUrl)
          /\ ~Segs[i].isGenerating
          /\ committed.segments[i].imageUrl = Segs[i].imageUrl
    /\ \A i \in 1..Len(Segs) : Kind(Segs[i].imageUrl) # "regenerated"

\* The workflow aggregate and the awaited calls other than the export's.
Aggregate == <<state, loading, news, manualRef>>
OtherCalls == calls \ Pending("downloadProduction")

\* C38: the two steps of downloadProduction, the click and the end of the
\* export (by an archive or by a failed fetch), leave the stage, the
\* selections, the package with every task's flag and result, and the
\* awaited calls of the tasks as they are; the click sets exporting and
\* the end clears it.
ExportLeavesWorkflow ==
    [][/\ \A c \in calls' \ calls :
              c.op = "downloadProduction" =>
                  /\ Aggregate' = Aggregate
                  /\ OtherCalls' = OtherCalls
                  /\ ~exporting /\ exporting'
       /\ \A c \in calls \ calls' :
              c.op = "downloadProduction" =>
                  /\ Aggregate' = Aggregate
                  /\ OtherCalls' = OtherCalls
                  /\ exporting /\ ~exporting']_vars

\* An export has ended with an archive of the package as it was when the
\* button was clicked, while tasks completed during the export.
ExportedWhileTasksCompleted ==
    /\ started.exports = 1
    /\ ~exporting
    /\ Len(downloads) = 1
    /\ downloads[1].from.audioUrl = NoUrl
    /\ downloads[1].from.isAudioGenerating
    /\ state.scriptPackage.audioUrl # NoUrl
    /\ \E i \in 1..Len(Segs) : Segs[i].isGenerating
    /\ \A i \in 1..Len(Segs) : downloads[1].from.segments[i].imageUrl = NoUrl

\* The sequences of seqs one after the other.
RECURSIVE Flatten(_)
Flatten(seqs) == IF seqs = <<>> THEN <<>> ELSE Head(seqs) \o Flatten(Tail(seqs))

\* Position by position: a character that is not whitespace stands for
\* itself, the first character of a whitespace run for one underscore, and
\* the other characters of the run for nothing.
Collapsed(title) ==
    Flatten([i \in 1..Len(title) |->
                IF title[i] \notin Whitespace THEN <<title[i]>>
                ELSE IF i = 1 \/ title[i - 1] \notin Whitespace THEN <<"_">>
                ELSE <<>>])

\* title with w put in place of its character i, and with w put before it.
Swapped(title, i, w) == [title EXCEPT ![i] = w]
Widened(title, i, w) == SubSeq(title, 1, i - 1) \o <<w>> \o SubSeq(title, i, Len(title))

\* C39: the name of the downloaded file is ShortsAI_Production_, the title
\* with every maximal run of whitespace replaced by one underscore and
\* every other character unchanged, and .zip; it holds no whitespace; and
\* a title that differs in the kind or the length of a whitespace run
\* (one whitespace character exchanged for another, or one more put into
\* a run) gets the same name.
FilenameCollapsesWhitespace ==
    \A k \in 1..Len(downloads) :
        LET title == downloads[k].from.title
            name == downloads[k].download
        IN  /\ name = <<"ShortsAI_Production_">> \o Collapsed(title) \o <<".zip">>
            /\ \A i \in 1..Len(name) : name[i] \notin Whitespace
            /\ \A i \in 1..Len(title) :
                  title[i] \in Whitespace =>
                      \A w \in Whitespace :
                          /\ downloadName(Swapped(title, i, w)) = name
                          /\ downloadName(Widened(title, i, w)) = name

\* The archive of a title that starts with a letter, goes on with a run of
\* a space and a tab, and ends with an underscore was handed over.
MixedRunCollapsed ==
    \E k \in 1..Len(downloads) :
        /\ downloads[k].from.title = <<"a", " ", "\t", "_">>
        /\ downloads[k].download = <<"ShortsAI_Production_", "a", "_", "_", ".zip">>

====
